---- MODULE Spec2Model ----
(***************************************************************************)
(* TTN Ulm particulate matter sensor (ttnulmdust.ino).                     *)
(*                                                                         *)
(* The sketch is one endless duty cycle (loop) plus the watchdog-timer     *)
(* interrupt (ISR(WDT_vect)):  wake the SDS011, let the fan spin up, read  *)
(* humidity and temperature, take `samples` particulate readings, take the *)
(* median of each channel, encode, send 8 bytes, put the SDS011 to sleep   *)
(* and wait for the next cycle.                                            *)
(*                                                                         *)
(* Representation of C values:                                             *)
(*  - a float is the record [m, e] of its mantissa and exponent, and the   *)
(*    float operations round as the 32-bit hardware format does; a float   *)
(*    that was converted from a decimal (a sensor reading, an element of   *)
(*    a sample array) is held as that decimal in thousandths (12345 is     *)
(*    12.345) and stands for the float nearest to it, F32[12345];          *)
(*  - int16_t values are integers in -32768..32767, bytes are 0..255;      *)
(*  - an unsigned long is the pair <<high word, low word>> of 16-bit       *)
(*    words;                                                               *)
(*  - a C array of length n is a sequence of length n: C index k is        *)
(*    sequence index k + 1.                                                *)
(***************************************************************************)
EXTENDS Integers, Sequences, FiniteSets, TLC

VARIABLES
    cfg,          \* configuration.h: SLEEP_ON, PWR_DOWN, SLEEP_TIME
    pc,           \* position of the main flow (setup, then the steps of loop)
    iWakeCntr,    \* volatile uint16_t iWakeCntr
    samples_p10,  \* float samples_p10[]
    samples_p25,  \* float samples_p25[]
    i,            \* loop index of the sampling loop
    hint,         \* int16_t hint  (humidity)
    tint,         \* int16_t tint  (temperature)
    p25median,    \* float p25median
    p10median,    \* float p10median
    p10int,       \* int16_t p10int
    p25int,       \* int16_t p25int
    payload,      \* byte payload[8]
    sds,          \* power state the SDS011 was last commanded into
    attempts,     \* observation: outcome of each read attempt of this cycle
    medianIn,     \* observation: the arrays and count handed to median
    sent,         \* observation: the payload handed to sendBytes in this cycle
    lastDelay,    \* observation: argument of the fallback delay() at line 188
    events,       \* observation: the calls loop() has made in this cycle, in order
    tickFrom,     \* observation: iWakeCntr before the latest tick, -1 if none
    ref,          \* observation: readings and payload of a remembered cycle
    call          \* a single call of a helper function: arguments and result

vars == <<cfg, pc, iWakeCntr, samples_p10, samples_p25, i, hint, tint,
          p25median, p10median, p10int, p25int, payload, sds, attempts,
          medianIn, sent, lastDelay, events, tickFrom, ref, call>>

(***************************************************************************)
(* Sizes.  The sketch fixes the number of read attempts, the length of     *)
(* both sample arrays and the count handed to median to one and the same   *)
(* number (10); the model keeps them equal and scales that number.         *)
(***************************************************************************)
samples == 2

delay2 == 1100

UINT16_MAX == 65535

FAN_SPINUP == 60

\* SLEEP_TIME values (minutes) of the configurations explored
MaxSleepTime == 2

\* longest array handed to a single call of median
MaxLen == 4

\* half-width of the windows of floats handed to a single encoding
EncWindow == 30

SLEEP_ON == cfg.SLEEP_ON

PWR_DOWN == cfg.PWR_DOWN

SLEEP_TIME == cfg.SLEEP_TIME

\* the builds explored; SLEEP_TIME is used under SLEEP_ON only
Configs ==
    [SLEEP_ON : {TRUE}, PWR_DOWN : BOOLEAN, SLEEP_TIME : 1..MaxSleepTime]
    \cup [SLEEP_ON : {FALSE}, PWR_DOWN : BOOLEAN, SLEEP_TIME : {1}]

\* (pm2.5, pm10) pairs my_sds.read can deliver, in thousandths: a usual
\* reading and one at the top of the SDS011's range
Readings == {<<12000, 20980>>, <<450000, 999900>>}

\* (humidity, temperature) pairs the weather sensor can deliver; -1 stands
\* for the value a failed read returns
WeatherReadings == {<<47, -5>>, <<-1, 21>>}


(***************************************************************************)
(* The watchdog interrupt handler.                                         *)
(***************************************************************************)
WDT_vect(c) == IF c > UINT16_MAX - 1 THEN 0 ELSE c + 1

(***************************************************************************)
(* 32-bit floats (float and, on the AVR, double).  A float is the record   *)
(* [m, e] standing for m * 2^e, with |m| < 2^24; m is at least 2^23 in     *)
(* magnitude unless e is the least exponent -149 (denormals) or m is 0     *)
(* (zero is [0, 0]); e = 128 marks the infinities (m = 1, -1) and NaN      *)
(* (m = 0).  Every operation rounds its exact result to the nearest float, *)
(* ties to the even mantissa.  The operations are functions, so that an    *)
(* operand is evaluated once, where it is applied.                         *)
(*                                                                         *)
(* A float read from memory that holds no object of the program is         *)
(* indeterminate: it can be any 32-bit pattern.  Indet stands for all of   *)
(* them at once, and IndetHalf for all the halves of them; Denotes gives   *)
(* the floats a value stands for.                                          *)
(***************************************************************************)
Pow2[n \in Nat] == IF n = 0 THEN 1 ELSE 2 * Pow2[n - 1]

Abs(n) == IF n < 0 THEN -n ELSE n

Sgn(n) == IF n < 0 THEN -1 ELSE 1

\* the number of binary digits of n >= 0
BitLen[n \in Nat] == IF n = 0 THEN 0 ELSE 1 + BitLen[n \div 2]

FZero == [m |-> 0, e |-> 0]

FNaN == [m |-> 0, e |-> 128]

FInf(s) == [m |-> s, e |-> 128]

Indet == [m |-> 0, e |-> 129]

IndetHalf == [m |-> 0, e |-> 130]

\* the values of the 32-bit patterns: zero, the denormals, the normalised
\* floats, the infinities and NaN
Float32 ==
    {f \in [m : Int, e : -149..128] :
        \/ f = FZero
        \/ f.e = -149 /\ f.m # 0 /\ Abs(f.m) < Pow2[23]
        \/ f.e \in -149..104 /\ Abs(f.m) >= Pow2[23] /\ Abs(f.m) < Pow2[24]
        \/ f.e = 128 /\ f.m \in {-1, 0, 1}}

Float == Float32 \cup {Indet, IndetHalf}

\* the floats v stands for.  Any float is the sum of two patterns (of itself
\* and zero); the halves of the patterns are the floats below 2^127 in
\* magnitude (twice such a float is a float), the infinities and NaN.
Denotes(v) ==
    IF v = Indet THEN Float32
    ELSE IF v = IndetHalf THEN {f \in Float32 : f.e = 128 \/ f.e <= 103}
    ELSE {v}

\* n / 2^k for n >= 0, rounded to the nearest integer, ties to even
RoundShift[n \in Nat, k \in Nat] ==
    IF k >= 32 THEN 0
    ELSE IF k = 31 THEN (IF n > Pow2[30] THEN 1 ELSE 0)
    ELSE LET q == n \div Pow2[k]
             r == n % Pow2[k]
             h == Pow2[k - 1]
         IN  IF r > h \/ (r = h /\ q % 2 = 1) THEN q + 1 ELSE q

\* the float nearest to s * n * 2^x, for 0 <= n < 2^31 and s in {1, -1}
Pack[s \in {-1, 1}, n \in Nat, x \in Int] ==
    IF n = 0 THEN FZero
    ELSE LET k0 == BitLen[n] - 24
             k1 == -149 - x
             k == IF k0 > k1 THEN k0 ELSE k1
             r == IF k <= 0 THEN n * Pow2[-k] ELSE RoundShift[n, k]
             f == IF r = Pow2[24]
                  THEN [m |-> s * Pow2[23], e |-> x + k + 1]
                  ELSE [m |-> s * r, e |-> x + k]
         IN  IF r = 0 THEN FZero
             ELSE IF f.e > 104 THEN FInf(s)
             ELSE f

\* the float nearest to the decimal t / 1000: binary digits of the quotient
\* are produced until the mantissa is full, the remainder decides the
\* rounding
DecimalBits[m \in Nat, rem \in Nat, e \in Int] ==
    IF m < Pow2[23] /\ e > -149
    THEN DecimalBits[2 * m + (IF 2 * rem >= 1000 THEN 1 ELSE 0),
                     (2 * rem) % 1000, e - 1]
    ELSE <<m, rem, e>>

F32[t \in Int] ==
    IF t = 0 THEN FZero
    ELSE LET d == DecimalBits[Abs(t) \div 1000, Abs(t) % 1000, 0]
             up == 2 * d[2] > 1000 \/ (2 * d[2] = 1000 /\ d[1] % 2 = 1)
         IN  Pack[Sgn(t), IF up THEN d[1] + 1 ELSE d[1], d[3]]

\* a + b.  The operand with the smaller exponent is aligned to the other
\* with three extra digits, the last of them collecting every digit shifted
\* out.  The sum of two indeterminate floats is indeterminate.
FAdd[a \in Float, b \in Float] ==
    IF a = Indet /\ b = Indet THEN Indet
    ELSE IF a.e = 128 \/ b.e = 128
    THEN IF (a.e = 128 /\ a.m = 0) \/ (b.e = 128 /\ b.m = 0) THEN FNaN
         ELSE IF a.e = 128 /\ b.e = 128
              THEN (IF a.m = b.m THEN a ELSE FNaN)
         ELSE IF a.e = 128 THEN a ELSE b
    ELSE IF a.m = 0 THEN b
    ELSE IF b.m = 0 THEN a
    ELSE LET hi == IF a.e >= b.e THEN a ELSE b
             lo == IF a.e >= b.e THEN b ELSE a
             d == hi.e - lo.e
             l8 == Abs(lo.m) * 8
             q == IF d > 27 THEN 0 ELSE l8 \div Pow2[d]
             lost == IF d > 27 THEN TRUE ELSE l8 % Pow2[d] # 0
             l == IF lost /\ q % 2 = 0 THEN q + 1 ELSE q
             sum == hi.m * 8 + Sgn(lo.m) * l
         IN  Pack[Sgn(sum), Abs(sum), hi.e - 3]

\* f / 2
FHalf[f \in Float] ==
    IF f = Indet THEN IndetHalf
    ELSE IF f.e = 128 THEN f ELSE Pack[Sgn(f.m), Abs(f.m), f.e - 1]

\* f * 100
FMul100[f \in Float32] ==
    IF f.e = 128 THEN f ELSE Pack[Sgn(f.m), Abs(f.m) * 100, f.e]

\* 0.5 and -0.5
FConstHalf(s) == [m |-> s * Pow2[23], e |-> -24]

(***************************************************************************)
(* bubbleSort: one pass of the inner for loop from C index p on, carrying  *)
(* newn, then the do-while around it.                                      *)
(***************************************************************************)
\* variant: the inner loop stops one element short (p < len - 1)
RECURSIVE BubblePassShort(_, _, _, _)
BubblePassShort(A, p, len, newn) ==
    IF p < len - 1
    THEN IF A[p] > A[p + 1]
         THEN BubblePassShort([A EXCEPT ![p] = A[p + 1], ![p + 1] = A[p]],
                              p + 1, len, p)
         ELSE BubblePassShort(A, p + 1, len, newn)
    ELSE <<A, newn>>

RECURSIVE BubblePass(_, _, _, _)
BubblePass(A, p, len, newn) ==
    IF p < len
    THEN IF A[p] > A[p + 1]
         THEN BubblePass([A EXCEPT ![p] = A[p + 1], ![p + 1] = A[p]],
                         p + 1, len, p)
         ELSE BubblePass(A, p + 1, len, newn)
    ELSE <<A, newn>>

\* variant: the do-while ends one position early (n > 2)
RECURSIVE bubbleSortExitEarly(_, _)
bubbleSortExitEarly(A, len) ==
    LET r == BubblePass(A, 1, len, 1)
    IN  IF r[2] > 2 THEN bubbleSortExitEarly(r[1], len) ELSE r[1]

RECURSIVE bubbleSort(_, _)
bubbleSort(A, len) ==
    LET r == BubblePass(A, 1, len, 1)
    IN  IF r[2] > 1 THEN bubbleSort(r[1], len) ELSE r[1]

\* the number of rounds of the do-while in bubbleSort(A, len)
RECURSIVE BubblePasses(_, _)
BubblePasses(A, len) ==
    LET r == BubblePass(A, 1, len, 1)
    IN  IF r[2] > 1 THEN 1 + BubblePasses(r[1], len) ELSE 1

(***************************************************************************)
(* median.  sorted has m elements, C indices 0..m-1; a read outside them   *)
(* is undefined behaviour and delivers whatever oob holds for that index.  *)
(***************************************************************************)
\* what an out-of-bounds read of sorted delivers: the four bytes that lie on
\* the stack at that address, which can be any 32-bit pattern
Garbage == {Indet}

NoOob == [k \in {-1, 0} |-> FZero]

SortedAt(sorted, m, k, oob) ==
    IF k \in 0..(m - 1) THEN F32[sorted[k + 1]] ELSE oob[k]

\* the C indices of sorted that median reads for its result
MedianReads(m) == IF m % 2 = 0 THEN {(m \div 2) - 1, m \div 2} ELSE {m \div 2}

median(A, m, oob) ==
    LET sorted == bubbleSort([k \in 1..m |-> A[k]], m)
    IN  IF m % 2 = 0
        THEN FHalf[FAdd[SortedAt(sorted, m, (m \div 2) - 1, oob),
                        SortedAt(sorted, m, m \div 2, oob)]]
        ELSE SortedAt(sorted, m, m \div 2, oob)

\* variant: bubbleSort is handed the caller's array
AfterMedianInPlace(A, m) ==
    LET sorted == bubbleSort([k \in 1..m |-> A[k]], m)
    IN  [k \in DOMAIN A |-> IF k <= m THEN sorted[k] ELSE A[k]]

\* the caller's array after median(A, m): median writes only to its local
\* array sorted, and hands that one to bubbleSort
AfterMedian(A, m) == A

(***************************************************************************)
(* Encoding: int16_t v = round(x * 100), then highByte(v), lowByte(v).     *)
(***************************************************************************)
\* (long) f: the float f truncated toward zero, for f within the range of
\* long (the conversion of any other float is undefined)
ToLong[f \in Float32] ==
    CASE f.e < 0 /\ f.e > -31 -> Sgn(f.m) * (Abs(f.m) \div Pow2[-f.e])
      [] f.e <= -31 -> 0
      [] f.e >= 0 /\ BitLen[Abs(f.m)] + f.e <= 31 -> f.m * Pow2[f.e]

\* Arduino's round(f): f >= 0 ? (long)(f + 0.5) : (long)(f - 0.5)
round(f) ==
    IF f.m >= 0 /\ f # FNaN
    THEN ToLong[FAdd[f, FConstHalf(1)]]
    ELSE ToLong[FAdd[f, FConstHalf(-1)]]

\* conversion of a long to int16_t
ToInt16(n) == ((n + 32768) % 65536) - 32768

EncodeField(x) == ToInt16(round(FMul100[x]))

highByte(w) == (w \div 256) % 256

lowByte(w) == w % 256

\* variant: low byte first
BuildPayloadLittleEndian(f10, f25, h, t) ==
    <<lowByte(f10), highByte(f10), lowByte(f25), highByte(f25),
      lowByte(h), highByte(h), lowByte(t), highByte(t)>>

BuildPayload(f10, f25, h, t) ==
    <<highByte(f10), lowByte(f10), highByte(f25), lowByte(f25),
      highByte(h), lowByte(h), highByte(t), lowByte(t)>>

(***************************************************************************)
(* The fallback wait of line 188: a long, converted to delay's unsigned    *)
(* long parameter.                                                          *)
(***************************************************************************)
delay1 == 1000 * FAN_SPINUP

SleepDelay == (1000 * 60 * SLEEP_TIME) - (delay1 + samples * delay2)

ToULong(n) == <<(n \div 65536) % 65536, n % 65536>>

(***************************************************************************)
(* enterSleepFor (sleep_32u4.h): waits until iWakeCntr has reached the     *)
(* target for the given minutes, then clears it.                           *)
(***************************************************************************)
TicksPerMinute == 1

TargetTicks(minutes) == minutes * TicksPerMinute

\* the main specification follows the counter up to the longest target
TickCap == TargetTicks(MaxSleepTime)

(***************************************************************************)
(* Initial state: the globals as the C start-up code leaves them (zeroed), *)
(* the main flow before setup.                                             *)
(***************************************************************************)
Zeros == [k \in 1..samples |-> 0]

NotRead == [st |-> "none", p25 |-> 0, p10 |-> 0]

ReadError == [st |-> "err", p25 |-> 0, p10 |-> 0]

ReadOk(r) == [st |-> "ok", p25 |-> r[1], p10 |-> r[2]]

NoAttempts == [k \in 1..samples |-> NotRead]

NoMedianIn == [p25 |-> <<>>, p10 |-> <<>>, m |-> -1]

NoDelay == <<-1, -1>>

NoRef == [attempts |-> <<>>, hint |-> 0, tint |-> 0, sent |-> <<>>]

NoCall == [fn |-> "none", arg |-> 0, m |-> 0, done |-> FALSE,
           kind |-> "pending", res |-> 0, reads |-> {}, after |-> 0]

ProgInit ==
    /\ pc = "setup"
    /\ iWakeCntr = 0
    /\ samples_p10 = Zeros
    /\ samples_p25 = Zeros
    /\ i = 0
    /\ hint = 0
    /\ tint = 0
    /\ p25median = FZero
    /\ p10median = FZero
    /\ p10int = 0
    /\ p25int = 0
    /\ payload = <<>>
    /\ sds = "awake"
    /\ attempts = NoAttempts
    /\ medianIn = NoMedianIn
    /\ sent = <<>>
    /\ lastDelay = NoDelay
    /\ events = <<>>
    /\ tickFrom = -1
    /\ ref = NoRef
    /\ call = NoCall

Init == cfg \in Configs /\ ProgInit

(***************************************************************************)
(* The main flow.                                                          *)
(***************************************************************************)
\* the log of a cycle: e is appended; the log holds the calls of a whole
\* cycle and two more, further calls are not recorded
LogCap == samples + 10

Logged(e) == IF Len(events) < LogCap THEN Append(events, e) ELSE events

globals == <<iWakeCntr, samples_p10, samples_p25, tickFrom>>

locals == <<i, hint, tint, p25median, p10median, p10int, p25int, payload>>

observed == <<attempts, medianIn, sent, lastDelay, events>>

\* setup() up to setupPowerMode: serial ports, SDS011, weather sensor and,
\* under PWR_DOWN, the watchdog timer
Setup ==
    /\ pc = "setup"
    /\ pc' = "join"
    /\ UNCHANGED <<cfg, globals, locals, sds, observed, ref, call>>

\* ttn.showStatus(); ttn.join(appEui, appKey) returns; loop() is called next
Join ==
    /\ pc = "join"
    /\ pc' = "wakeup"
    /\ UNCHANGED <<cfg, globals, locals, sds, observed, ref, call>>

\* variant: the first cycle starts while ttn.join has not returned
WakeupEarly ==
    /\ pc \in {"join", "wakeup"}
    /\ sds' = IF SLEEP_ON THEN "awake" ELSE sds
    /\ lastDelay' = NoDelay
    /\ events' = IF SLEEP_ON THEN <<"wake">> ELSE <<>>
    /\ pc' = "spinup"
    /\ UNCHANGED <<cfg, globals, locals, attempts, medianIn, sent, ref, call>>

\* my_sds.wakeup() under SLEEP_ON
Wakeup ==
    /\ pc = "wakeup"
    /\ sds' = IF SLEEP_ON THEN "awake" ELSE sds
    /\ lastDelay' = NoDelay
    /\ events' = IF SLEEP_ON THEN <<"wake">> ELSE <<>>
    /\ pc' = "spinup"
    /\ UNCHANGED <<cfg, globals, locals, attempts, medianIn, sent, ref, call>>

\* delay(delay1) under SLEEP_ON
FanSpinup ==
    /\ pc = "spinup"
    /\ events' = IF SLEEP_ON THEN Logged("warmup") ELSE events
    /\ pc' = "weather"
    /\ UNCHANGED <<cfg, globals, locals, sds, attempts, medianIn, sent,
                   lastDelay, ref, call>>

\* variant: a negative (failed) humidity or temperature ends the cycle
ReadWeatherAbort ==
    /\ pc = "weather"
    /\ \E w \in WeatherReadings :
          /\ hint' = w[1]
          /\ tint' = w[2]
          /\ pc' = IF w[1] < 0 \/ w[2] < 0 THEN "sds_sleep" ELSE "sample"
    /\ i' = 0
    /\ events' = Logged("ambient")
    /\ UNCHANGED <<cfg, globals, p25median, p10median, p10int, p25int,
                   payload, sds, attempts, medianIn, sent, lastDelay, ref,
                   call>>

\* readHumidity(), readTemperature(); then the for loop starts at i = 0
ReadWeather ==
    /\ pc = "weather"
    /\ \E w \in WeatherReadings : hint' = w[1] /\ tint' = w[2]
    /\ i' = 0
    /\ events' = Logged("ambient")
    /\ pc' = "sample"
    /\ UNCHANGED <<cfg, globals, p25median, p10median, p10int, p25int,
                   payload, sds, attempts, medianIn, sent, lastDelay, ref,
                   call>>

\* variant: the loop stops one attempt short
LoopCondShort(k) == k < samples - 1

LoopCond(k) == k < samples

\* variant: the loop index is not advanced
NextIndexStuck(k) == k

NextIndex(k) == k + 1

\* one pass of the for loop body: my_sds.read, store on success, delay(delay2)
ReadSample ==
    /\ pc = "sample"
    /\ LoopCond(i)
    /\ \E error \in {0, 1}, r \in Readings :
          IF error = 0
          THEN /\ samples_p25' = [samples_p25 EXCEPT ![i + 1] = r[1]]
               /\ samples_p10' = [samples_p10 EXCEPT ![i + 1] = r[2]]
               /\ attempts' = [attempts EXCEPT ![i + 1] = ReadOk(r)]
          ELSE /\ UNCHANGED <<samples_p25, samples_p10>>
               /\ attempts' = [attempts EXCEPT ![i + 1] = ReadError]
    /\ i' = NextIndex(i)
    /\ events' = Logged("read")
    /\ UNCHANGED <<cfg, pc, iWakeCntr, tickFrom, hint, tint,
                   p25median, p10median, p10int, p25int, payload, sds,
                   medianIn, sent, lastDelay, ref, call>>

\* the for loop ends
SampleDone ==
    /\ pc = "sample"
    /\ ~LoopCond(i)
    /\ pc' = "median"
    /\ UNCHANGED <<cfg, globals, locals, sds, observed, ref, call>>

\* p25median = median(samples_p25, 10); p10median = median(samples_p10, 10)
Aggregate ==
    /\ pc = "median"
    /\ p25median' = median(samples_p25, samples, NoOob)
    /\ p10median' = median(samples_p10, samples, NoOob)
    /\ samples_p25' = AfterMedian(samples_p25, samples)
    /\ samples_p10' = AfterMedian(samples_p10, samples)
    /\ medianIn' = [p25 |-> samples_p25, p10 |-> samples_p10, m |-> samples]
    /\ events' = Logged("median")
    /\ pc' = "encode"
    /\ UNCHANGED <<cfg, iWakeCntr, tickFrom, i, hint, tint, p10int,
                   p25int, payload, sds, attempts, sent, lastDelay, ref, call>>

\* int16_t p10int = round(p10median * 100); likewise p25int
Encode ==
    /\ pc = "encode"
    /\ p10int' = EncodeField(p10median)
    /\ p25int' = EncodeField(p25median)
    /\ events' = Logged("encode")
    /\ pc' = "payload"
    /\ UNCHANGED <<cfg, globals, i, hint, tint, p25median, p10median, payload,
                   sds, attempts, medianIn, sent, lastDelay, ref, call>>

\* byte payload[8] filled from p10int, p25int, hint, tint
FillPayload ==
    /\ pc = "payload"
    /\ payload' = BuildPayload(p10int, p25int, hint, tint)
    /\ pc' = "send"
    /\ UNCHANGED <<cfg, globals, i, hint, tint, p25median, p10median, p10int,
                   p25int, sds, observed, ref, call>>

\* variant: the payload is handed to sendBytes a second time
SendBytesTwice ==
    /\ pc = "send"
    /\ sent' = payload
    /\ events' = events \o <<"send", "send">>
    /\ pc' = "sds_sleep"
    /\ UNCHANGED <<cfg, globals, locals, sds, attempts, medianIn, lastDelay,
                   ref, call>>

\* ttn.sendBytes(payload, sizeof(payload))
SendBytes ==
    /\ pc = "send"
    /\ sent' = payload
    /\ events' = Logged("send")
    /\ pc' = "sds_sleep"
    /\ UNCHANGED <<cfg, globals, locals, sds, attempts, medianIn, lastDelay,
                   ref, call>>

\* variant: the sensor is not put to sleep
SdsSleepMissing ==
    /\ pc = "sds_sleep"
    /\ pc' = "wait"
    /\ UNCHANGED <<cfg, globals, locals, sds, observed, ref, call>>

\* my_sds.sleep() under SLEEP_ON
SdsSleep ==
    /\ pc = "sds_sleep"
    /\ sds' = IF SLEEP_ON THEN "asleep" ELSE sds
    /\ events' = IF SLEEP_ON THEN Logged("sleep") ELSE events
    /\ pc' = "wait"
    /\ UNCHANGED <<cfg, globals, locals, attempts, medianIn, sent, lastDelay,
                   ref, call>>

\* loop() returns: its locals are gone, the next call starts a new cycle
LoopReturn ==
    /\ pc' = "wakeup"
    /\ i' = 0
    /\ hint' = 0
    /\ tint' = 0
    /\ p25median' = FZero
    /\ p10median' = FZero
    /\ p10int' = 0
    /\ p25int' = 0
    /\ payload' = <<>>
    /\ attempts' = NoAttempts
    /\ medianIn' = NoMedianIn
    /\ sent' = <<>>
    /\ UNCHANGED <<cfg, samples_p10, samples_p25, sds, ref, call>>

\* SLEEP_ON and PWR_DOWN: enterSleepFor(SLEEP_TIME).  The processor sleeps,
\* each tick wakes it and iWakeCntr is checked against the target; once the
\* target is reached the function goes on to clear the counter.  Nothing
\* holds the interrupt off between the check and the clear.
EnterSleepFor ==
    /\ pc = "wait"
    /\ SLEEP_ON /\ PWR_DOWN
    /\ iWakeCntr >= TargetTicks(SLEEP_TIME)
    /\ pc' = "clear"
    /\ UNCHANGED <<cfg, globals, locals, sds, observed, ref, call>>

\* enterSleepFor clears iWakeCntr and returns
EnterSleepForClear ==
    /\ pc = "clear"
    /\ iWakeCntr' = 0
    /\ tickFrom' = -1
    /\ events' = Logged("wait")
    /\ UNCHANGED lastDelay
    /\ LoopReturn

\* SLEEP_ON without PWR_DOWN: delay(1000L * 60 * SLEEP_TIME - (delay1 + samples * delay2))
FallbackDelay ==
    /\ pc = "wait"
    /\ SLEEP_ON /\ ~PWR_DOWN
    /\ lastDelay' = ToULong(SleepDelay)
    /\ events' = Logged("wait")
    /\ UNCHANGED <<iWakeCntr, tickFrom>>
    /\ LoopReturn

\* without SLEEP_ON the cycle ends after sendBytes
NoSleep ==
    /\ pc = "wait"
    /\ ~SLEEP_ON
    /\ UNCHANGED <<iWakeCntr, tickFrom, lastDelay, events>>
    /\ LoopReturn

(***************************************************************************)
(* The watchdog interrupt.  setupPowerMode (under PWR_DOWN) starts the     *)
(* timer in setup; a tick can then arrive between any two steps.           *)
(***************************************************************************)
\* variant: the handler also resets the loop index of the main flow
WdtTickClobbers ==
    /\ iWakeCntr' = WDT_vect(iWakeCntr)
    /\ tickFrom' = iWakeCntr
    /\ i' = 0
    /\ UNCHANGED <<cfg, pc, samples_p10, samples_p25, hint, tint, p25median,
                   p10median, p10int, p25int, payload, sds, observed, ref,
                   call>>

WdtTick ==
    /\ iWakeCntr' = WDT_vect(iWakeCntr)
    /\ tickFrom' = iWakeCntr
    /\ UNCHANGED <<cfg, pc, samples_p10, samples_p25, locals, sds, observed,
                   ref, call>>

TickAny ==
    /\ PWR_DOWN
    /\ pc # "setup"
    /\ WdtTick

\* the main specification stops the counter at TickCap
Tick ==
    /\ iWakeCntr < TickCap
    /\ TickAny

Cycle ==
    \/ Setup \/ Join \/ Wakeup \/ FanSpinup \/ ReadWeather \/ ReadSample
    \/ SampleDone \/ Aggregate \/ Encode \/ FillPayload \/ SendBytes
    \/ SdsSleep

Next ==
    \/ Cycle \/ EnterSleepFor \/ EnterSleepForClear \/ FallbackDelay
    \/ NoSleep \/ Tick

Spec == Init /\ [][Next]_vars

(***************************************************************************)
(* LiveSpec: the main flow and the interrupt with the scheduling the       *)
(* sketch runs under: every call of the main flow returns and the watchdog *)
(* keeps ticking.                                                          *)
(***************************************************************************)
MainFlow ==
    \/ Cycle \/ EnterSleepFor \/ EnterSleepForClear \/ FallbackDelay
    \/ NoSleep

\* the builds with the shortest sleep interval
LiveInit == Init /\ SLEEP_TIME = 1

LiveSpec == LiveInit /\ [][Next]_vars /\ WF_vars(MainFlow) /\ WF_vars(Tick)

(***************************************************************************)
(* SpecWdt: the interrupt handler alone.  The timer runs while ttn.join    *)
(* blocks in setup; the counter can hold any 16-bit value when the next    *)
(* tick arrives.                                                           *)
(***************************************************************************)
WdtInit ==
    /\ cfg = [SLEEP_ON |-> TRUE, PWR_DOWN |-> TRUE, SLEEP_TIME |-> 1]
    /\ pc = "join"
    /\ iWakeCntr \in 0..UINT16_MAX
    /\ samples_p10 = Zeros
    /\ samples_p25 = Zeros
    /\ i = 0
    /\ hint = 0
    /\ tint = 0
    /\ p25median = FZero
    /\ p10median = FZero
    /\ p10int = 0
    /\ p25int = 0
    /\ payload = <<>>
    /\ sds = "awake"
    /\ attempts = NoAttempts
    /\ medianIn = NoMedianIn
    /\ sent = <<>>
    /\ lastDelay = NoDelay
    /\ events = <<>>
    /\ tickFrom = -1
    /\ ref = NoRef
    /\ call = NoCall

SpecWdt == WdtInit /\ [][TickAny]_vars

(***************************************************************************)
(* SpecHist: the sketch built with SLEEP_ON and without PWR_DOWN, observed *)
(* over several cycles: Remember keeps the readings and the payload of one *)
(* completed cycle for comparison with a later one.                        *)
(***************************************************************************)
HistInit ==
    /\ cfg = [SLEEP_ON |-> TRUE, PWR_DOWN |-> FALSE, SLEEP_TIME |-> 2]
    /\ ProgInit

Remember ==
    /\ pc = "wait"
    /\ ref' = [attempts |-> attempts, hint |-> hint, tint |-> tint,
               sent |-> sent]
    /\ UNCHANGED <<cfg, pc, globals, locals, sds, observed, call>>

NextHist == Cycle \/ FallbackDelay \/ Remember

SpecHist == HistInit /\ [][NextHist]_vars

(***************************************************************************)
(* SpecUnit: single calls of the helper functions on bounded inputs.       *)
(***************************************************************************)
\* floats handed to median, in thousandths (even counts)
MedianVals == {10000, 12344, 12346, 100000}

MedianInputs == UNION {[1..n -> MedianVals] : n \in 0..MaxLen}

\* floats handed to the encoding: windows around these values
EncCentres == {0, 1005, -12345, 327670, -327670, 655350}

EncodeInputs == {c + d : c \in EncCentres, d \in (-EncWindow)..EncWindow}

Calls ==
    {[fn |-> "median", arg |-> A, m |-> Len(A), done |-> FALSE,
      kind |-> "pending", res |-> 0, reads |-> {}, after |-> 0]
        : A \in MedianInputs}
    \cup
    {[fn |-> "bubbleSort", arg |-> A, m |-> Len(A), done |-> FALSE,
      kind |-> "pending", res |-> 0, reads |-> {}, after |-> 0]
        : A \in MedianInputs}
    \cup
    {[fn |-> "encode", arg |-> x, m |-> 0, done |-> FALSE,
      kind |-> "pending", res |-> 0, reads |-> {}, after |-> 0]
        : x \in EncodeInputs}

UnitInit ==
    /\ cfg = [SLEEP_ON |-> TRUE, PWR_DOWN |-> FALSE, SLEEP_TIME |-> 2]
    /\ pc = "setup"
    /\ iWakeCntr = 0
    /\ samples_p10 = Zeros
    /\ samples_p25 = Zeros
    /\ i = 0
    /\ hint = 0
    /\ tint = 0
    /\ p25median = FZero
    /\ p10median = FZero
    /\ p10int = 0
    /\ p25int = 0
    /\ payload = <<>>
    /\ sds = "awake"
    /\ attempts = NoAttempts
    /\ medianIn = NoMedianIn
    /\ sent = <<>>
    /\ lastDelay = NoDelay
    /\ events = <<>>
    /\ tickFrom = -1
    /\ ref = NoRef
    /\ call \in Calls

\* float r = median(arg, m): the function has no exit but its two returns,
\* so every call ends with a value
CallMedian ==
    /\ call.fn = "median"
    /\ ~call.done
    /\ \E oob \in [{-1, 0} -> Garbage] :
          call' = [call EXCEPT !.done = TRUE,
                               !.kind = "value",
                               !.res = median(call.arg, call.m, oob),
                               !.reads = MedianReads(call.m),
                               !.after = AfterMedian(call.arg, call.m)]
    /\ UNCHANGED <<cfg, pc, globals, locals, sds, observed, ref>>

\* bubbleSort(arg, m): the array is sorted in place; res is the number of
\* rounds the do-while took
CallSort ==
    /\ call.fn = "bubbleSort"
    /\ ~call.done
    /\ call' = [call EXCEPT !.done = TRUE,
                            !.kind = "value",
                            !.res = BubblePasses(call.arg, call.m),
                            !.after = bubbleSort(call.arg, call.m)]
    /\ UNCHANGED <<cfg, pc, globals, locals, sds, observed, ref>>

\* int16_t v = round(arg * 100); highByte(v); lowByte(v)
CallEncode ==
    /\ call.fn = "encode"
    /\ ~call.done
    /\ call' = [call EXCEPT !.done = TRUE,
                            !.kind = "value",
                            !.res = <<EncodeField(F32[call.arg]),
                                      highByte(EncodeField(F32[call.arg])),
                                      lowByte(EncodeField(F32[call.arg]))>>]
    /\ UNCHANGED <<cfg, pc, globals, locals, sds, observed, ref>>

NextUnit == CallMedian \/ CallSort \/ CallEncode

SpecUnit == UnitInit /\ [][NextUnit]_vars

(***************************************************************************)
(* Properties.                                                             *)
(***************************************************************************)
OkAttempts == {k \in 1..samples : attempts[k].st = "ok"}

AllFailed == \A k \in 1..samples : attempts[k].st = "err"

Decode16(hi, lo) ==
    LET v == hi * 256 + lo IN IF v >= 32768 THEN v - 65536 ELSE v

Max0(n) == IF n > 0 THEN n ELSE 0

\* C1: in a cycle in which every particulate read attempt fails, no payload
\* is handed to sendBytes.
C1_NoSendWhenAllReadsFail == AllFailed => sent = <<>>

\* C2 as stated: a tick increments iWakeCntr by one or, at the maximum
\* 16-bit value, leaves it there; it never decreases it.
C2_TickSaturates ==
    [][WdtTick => iWakeCntr' = IF iWakeCntr = UINT16_MAX
                               THEN UINT16_MAX
                               ELSE iWakeCntr + 1]_vars

\* C3: the payload sent in a cycle is determined by the readings of that
\* cycle alone: a cycle whose readings (weather values and the outcome of
\* every read attempt) equal those of a remembered earlier cycle sends the
\* payload that cycle sent.
C3_CycleIndependent ==
    (/\ pc = "wait"
     /\ ref # NoRef
     /\ ref.attempts = attempts
     /\ ref.hint = hint
     /\ ref.tint = tint)
    => sent = ref.sent

\* the ascending arrangement of S, and the midpoint rule on it
CountIn(S, v) == Cardinality({k \in DOMAIN S : S[k] = v})

Ascending(S) ==
    CHOOSE T \in [DOMAIN S -> {S[k] : k \in DOMAIN S}] :
        /\ \A k \in DOMAIN S : k + 1 \in DOMAIN S => T[k] <= T[k + 1]
        /\ \A k \in DOMAIN S : CountIn(T, S[k]) = CountIn(S, S[k])

Midpoint(T) ==
    LET n == Len(T)
    IN  IF n % 2 = 1
        THEN F32[T[(n + 1) \div 2]]
        ELSE FHalf[FAdd[F32[T[n \div 2]], F32[T[(n \div 2) + 1]]]]

\* C4: for every array of 1..MaxLen samples, median returns the middle
\* element of the array sorted ascending (odd count) or the mean of the two
\* middle elements (even count; the mean as a float: their sum rounded to
\* the nearest float, halved), and returns the same for every permutation
\* of the array.
C4_MedianIsSortedMidpoint ==
    (call.fn = "median" /\ call.done /\ call.m >= 1)
    => /\ call.res = Midpoint(Ascending(call.arg))
       /\ \A P \in Permutations(1..call.m) :
             median([k \in 1..call.m |-> call.arg[P[k]]], call.m, NoOob)
             = call.res

C4_Witness ==
    /\ call.fn = "median"
    /\ call.done
    /\ call.arg = <<100000, 12346, 10000, 12344>>
    /\ call.res = [m |-> 12944670, e |-> -20]

\* C5: median of an empty sample set fails with EmptyInputError: it returns
\* no value and reads no array element.
C5_EmptyMedianFails ==
    (call.fn = "median" /\ call.done /\ call.m = 0)
    => call.kind = "EmptyInputError" /\ call.reads = {}

\* C6: the payload handed to sendBytes has exactly 8 bytes, in the order
\* PM10, PM2.5, humidity, temperature, each field high byte first: reading
\* each pair as a big-endian signed 16-bit number gives back p10int, p25int,
\* hint and tint.
C6_PayloadLayout ==
    sent # <<>>
    => /\ Len(sent) = 8
       /\ \A k \in 1..8 : sent[k] \in 0..255
       /\ Decode16(sent[1], sent[2]) = p10int
       /\ Decode16(sent[3], sent[4]) = p25int
       /\ Decode16(sent[5], sent[6]) = hint
       /\ Decode16(sent[7], sent[8]) = tint

C6_Witness ==
    /\ sent # <<>>
    /\ p10int = 2098
    /\ p25int = 1200
    /\ tint = -5
    /\ sent[1] = 8 /\ sent[2] = 50
    /\ sent[7] = 255 /\ sent[8] = 251

\* 100 * |f| as whole part and remainder over 2^k, for a finite float f
Scaled(f) ==
    LET n == Abs(f.m) * 100
    IN  CASE f.e < 0 /\ f.e >= -30 ->
               [q |-> n \div Pow2[-f.e], r |-> n % Pow2[-f.e], d |-> Pow2[-f.e]]
          [] f.e = -31 -> [q |-> 0, r |-> n \div 2, d |-> Pow2[30]]
          [] f.e < -31 -> [q |-> 0, r |-> 0, d |-> 2]
          [] f.e >= 0 /\ BitLen[n] + f.e <= 31 ->
               [q |-> n * Pow2[f.e], r |-> 0, d |-> 2]

\* the real number f * 100 rounded to the nearest integer, halves away
\* from zero, computed exactly
Hundredths(f) ==
    LET c == Scaled(f)
    IN  Sgn(f.m) * (IF 2 * c.r >= c.d THEN c.q + 1 ELSE c.q)

\* |f| <= 327.67, exactly
InRange(f) ==
    LET c == Scaled(f)
    IN  c.q < 32767 \/ (c.q = 32767 /\ c.r = 0)

\* C7: for every float x with |x| <= 327.67 the encoded field is x * 100
\* rounded to the nearest integer, halves away from zero, and the two bytes
\* decoded as a big-endian signed 16-bit number, divided by 100, give x
\* rounded to two decimals.
C7_EncodeRoundTrip ==
    (call.fn = "encode" /\ call.done /\ InRange(F32[call.arg]))
    => /\ call.res[1] = Hundredths(F32[call.arg])
       /\ Decode16(call.res[2], call.res[3]) = Hundredths(F32[call.arg])

\* C8: the fallback busy-wait delay is max(0, T - W - M), T the sleep
\* interval, W the fan warm-up, M the sampling duration, all in ms.
C8_FallbackDelayClamped ==
    lastDelay # NoDelay
    => lastDelay = ToULong(Max0((60000 * SLEEP_TIME) - (1000 * FAN_SPINUP)
                                - (samples * delay2)))

\* C9: the process never halts: whatever reads fail, the controller reaches
\* the interval wait again and again, and after each wait starts the next
\* cycle.
C9_NeverHalts ==
    /\ []<>(pc = "wait")
    /\ (pc = "wait") ~> (pc = "wakeup")

C9_Witness ==
    /\ pc = "wakeup"
    /\ lastDelay # NoDelay
    /\ samples_p10 = Zeros

\* C10: the values median aggregates are exactly the values of this
\* cycle's successful reads: their count is the number of successful reads
\* and every value occurs as often as it was read.
C10_OnlySuccessfulReadsAggregated ==
    medianIn.m # -1
    => /\ medianIn.m = Cardinality(OkAttempts)
       /\ \A r \in Readings :
             /\ CountIn(medianIn.p25, r[1])
                = Cardinality({k \in OkAttempts : attempts[k].p25 = r[1]})
             /\ CountIn(medianIn.p10, r[2])
                = Cardinality({k \in OkAttempts : attempts[k].p10 = r[2]})

\* the calls of one cycle in the order loop() makes them; the sensor wake,
\* the warm-up, the sensor sleep and the interval wait exist under SLEEP_ON
CycleEvents ==
    (IF SLEEP_ON THEN <<"wake", "warmup">> ELSE <<>>)
    \o <<"ambient">>
    \o [k \in 1..samples |-> "read"]
    \o <<"median", "encode", "send">>
    \o (IF SLEEP_ON THEN <<"sleep", "wait">> ELSE <<>>)

IsPrefix(S, T) == Len(S) <= Len(T) /\ \A k \in 1..Len(S) : S[k] = T[k]

EventCount(e) == Cardinality({k \in 1..Len(events) : events[k] = e})

\* C11: the calls of a cycle occur in one fixed order without going back:
\* sensor wake, warm-up, ambient read, the read attempts, aggregation,
\* encoding, sendBytes, sensor sleep, interval wait; sendBytes is called at
\* most once per cycle and only after every read attempt was made, the
\* sensor sleep command comes after sendBytes and before the interval wait.
C11_CycleOrder ==
    /\ IsPrefix(events, CycleEvents)
    /\ EventCount("send") <= 1
    /\ sent # <<>> => EventCount("read") = samples
    /\ \A k \in 1..Len(events) :
          /\ events[k] = "sleep" => k > 1 /\ events[k - 1] = "send"
          /\ events[k] = "wait" => k > 1 /\ events[k - 1] = "sleep"

C11_Witness ==
    /\ SLEEP_ON
    /\ pc = "wakeup"
    /\ events = CycleEvents

MadeAttempts == {k \in 1..samples : attempts[k].st # "none"}

AfterSampling ==
    pc \in {"median", "encode", "payload", "send", "sds_sleep", "wait", "clear"}

\* C12: every cycle makes exactly `samples` read attempts, however many of
\* them fail: during sampling the attempts made are exactly those below the
\* loop index, after it all of them; a failed attempt is not repeated; a
\* successful attempt stores its pm2.5 and its pm10 value at the same index
\* of the two arrays, so the two arrays hold at every index the values of
\* one and the same attempt.
C12_FixedAttempts ==
    /\ pc = "sample" => i \in 0..samples /\ MadeAttempts = 1..i
    /\ AfterSampling => MadeAttempts = 1..samples
    /\ pc # "wakeup" => EventCount("read") = Cardinality(MadeAttempts)
    /\ \A k \in 1..samples :
          /\ attempts[k].st = "ok" =>
                /\ samples_p25[k] = attempts[k].p25
                /\ samples_p10[k] = attempts[k].p10
          /\ <<samples_p25[k], samples_p10[k]>> \in Readings \cup {<<0, 0>>}

C12_Witness ==
    /\ pc = "wait"
    /\ attempts[1].st = "err"
    /\ attempts[samples].st = "ok"
    /\ samples_p10[samples] = attempts[samples].p10

\* the state of the program other than iWakeCntr
ProgramState == <<pc, samples_p10, samples_p25, locals, sds, sent>>

\* C14: the interrupt handler changes iWakeCntr and nothing else, and the
\* main flow writes iWakeCntr nowhere but in the interval wait: a step that
\* changes iWakeCntr either is the return of the interval wait, which
\* clears it, or leaves the sample arrays, the locals of loop, the payload,
\* the position of the main flow and the sensor's power state as they were;
\* and a step of the handler (one that delivers a tick) leaves them as they
\* were.
C14_TickFrame ==
    [][/\ iWakeCntr' # iWakeCntr
          => \/ pc = "clear" /\ pc' = "wakeup" /\ iWakeCntr' = 0
             \/ UNCHANGED ProgramState
       /\ (tickFrom' # tickFrom /\ tickFrom' # -1) => UNCHANGED ProgramState
       /\ (tickFrom' = tickFrom /\ pc # "clear") => iWakeCntr' = iWakeCntr]_vars

\* a tick has arrived in the middle of sampling
C14_Witness ==
    /\ pc = "sample"
    /\ i = 1
    /\ tickFrom = 0
    /\ iWakeCntr = 1
    /\ attempts[1].st = "ok"

\* the 16-bit pattern of a signed 16-bit integer
Unsigned16(v) == IF v < 0 THEN v + 65536 ELSE v

FirstIndexOf(e) ==
    IF EventCount(e) = 0
    THEN Len(events) + 1
    ELSE CHOOSE k \in 1..Len(events) :
            events[k] = e /\ \A j \in 1..(k - 1) : events[j] # e

\* C15: a failed humidity or temperature read does not end the cycle: the
\* value the sensor returned, sentinel or not, is in the payload as it is,
\* humidity in bytes 4 and 5, temperature in bytes 6 and 7 (C indices), high
\* byte then low byte of the unscaled 16-bit integer; all read attempts are
\* made and the payload is sent before the cycle ends; the weather sensor
\* is read once per cycle, before the first read attempt.
C15_AmbientFailureCarried ==
    /\ sent # <<>>
       => /\ sent[5] * 256 + sent[6] = Unsigned16(hint)
          /\ sent[7] * 256 + sent[8] = Unsigned16(tint)
          /\ <<hint, tint>> \in WeatherReadings
    /\ pc \in {"sds_sleep", "wait"}
       => sent # <<>> /\ MadeAttempts = 1..samples
    /\ EventCount("ambient") <= 1
    /\ EventCount("read") > 0
       => EventCount("ambient") = 1 /\ FirstIndexOf("ambient") < FirstIndexOf("read")

\* the humidity read failed (-1); the payload carries 0xFF 0xFF for it
C15_Witness ==
    /\ pc = "wait"
    /\ hint = -1
    /\ sent # <<>>
    /\ sent[5] = 255 /\ sent[6] = 255
    /\ sent[7] = 0 /\ sent[8] = 21
    /\ MadeAttempts = 1..samples

Int16 == -32768..32767

\* C16: when the float x times 100, rounded to the nearest integer with
\* halves away from zero, is outside -32768..32767, the encoded field is the
\* one number of that range congruent to that integer modulo 2^16, its two
\* bytes are the integer's low 16 bits, and the encoding returns a value
\* like any other: no error is raised.
C16_OverflowWraps ==
    (call.fn = "encode" /\ call.done /\ Hundredths(F32[call.arg]) \notin Int16)
    => /\ call.kind = "value"
       /\ call.res[1] \in Int16
       /\ (call.res[1] - Hundredths(F32[call.arg])) % 65536 = 0
       /\ call.res[2] \in 0..255 /\ call.res[3] \in 0..255
       /\ call.res[2] * 256 + call.res[3] = Hundredths(F32[call.arg]) % 65536

StartUp == {"setup", "join"}

\* C17: no cycle begins before start-up is over: as long as the main flow
\* is in setup (sensor initialisation, then ttn.join) no call of a cycle has
\* been made, nothing was read and nothing sent; start-up is left only by
\* the return of ttn.join, is never entered again, and while ttn.join does
\* not return the main flow stays where it is.
C17_StartUpFirst ==
    /\ [](pc \in StartUp
          => /\ events = <<>>
             /\ sent = <<>>
             /\ attempts = NoAttempts
             /\ samples_p10 = Zeros /\ samples_p25 = Zeros)
    /\ [][/\ (pc = "setup" /\ pc' # pc) => pc' = "join"
          /\ (pc = "join" /\ pc' # pc) => pc' = "wakeup" /\ events' = <<>>
          /\ pc' \in StartUp => pc \in StartUp]_vars

\* ttn.join has not returned while the watchdog has ticked up to the cap:
\* nothing was sampled or sent
C17_Witness ==
    /\ pc = "join"
    /\ iWakeCntr = TickCap
    /\ events = <<>>
    /\ sent = <<>>

IsAscending(S) == \A k \in 1..(Len(S) - 1) : S[k] <= S[k + 1]

SameValues(S, T) ==
    /\ Len(S) = Len(T)
    /\ \A v \in {S[k] : k \in 1..Len(S)} \cup {T[k] : k \in 1..Len(T)} :
          CountIn(S, v) = CountIn(T, v)

\* C18: for every array of 1..MaxLen elements bubbleSort returns, after at
\* most as many rounds of its do-while as the array has elements, with the
\* array in ascending order and holding the values it held before, each as
\* often as before: the do-while is never left with an adjacent pair out
\* of order.
C18_BubbleSortSorts ==
    (call.fn = "bubbleSort" /\ call.done /\ call.m >= 1)
    => /\ call.res \in 1..call.m
       /\ IsAscending(call.after)
       /\ SameValues(call.after, call.arg)

\* a descending array needs the most rounds
C18_Witness ==
    /\ call.fn = "bubbleSort"
    /\ call.done
    /\ call.arg = <<100000, 12346, 12344, 10000>>
    /\ call.after = <<10000, 12344, 12346, 100000>>
    /\ call.res = 3

\* the step logs the call e
Logs(e) == events' # events /\ events' # <<>> /\ events'[Len(events')] = e

EventsBefore(k) == {events[j] : j \in 1..(k - 1)}

\* C19: under SLEEP_ON every read attempt is made while the SDS011 is
\* commanded awake: the wake command and the warm-up precede it in its
\* cycle and no sleep command lies between; wake and sleep commands
\* alternate: a wake command is the first command or follows the sleep
\* command of the cycle before, a sleep command follows the one wake
\* command of its cycle.
C19_ReadsWhileAwake ==
    /\ [](SLEEP_ON
          => \A k \in 1..Len(events) :
                events[k] = "read"
                => /\ events[1] = "wake" /\ events[2] = "warmup"
                   /\ "sleep" \notin EventsBefore(k))
    /\ [][SLEEP_ON
          => /\ Logs("read") => sds = "awake" /\ sds' = "awake"
             /\ Logs("wake")
                => /\ sds' = "awake"
                   /\ \/ events = <<>> /\ pc = "wakeup"
                      \/ sds = "asleep" /\ EventCount("sleep") = 1
             /\ Logs("sleep")
                => /\ sds = "awake" /\ sds' = "asleep"
                   /\ EventCount("wake") = 1 /\ EventCount("sleep") = 0]_vars

\* a read attempt of a later cycle (the array still holds the value of the
\* cycle before at an index not yet read)
C19_Witness ==
    /\ SLEEP_ON
    /\ pc = "sample"
    /\ i = 1
    /\ attempts[samples].st = "none"
    /\ samples_p10[samples] # 0
    /\ sds = "awake"
    /\ events[1] = "wake"

====
